---------------------------- MODULE Spec2Model ----------------------------
(***************************************************************************)
(* Model of setup.py, the packaging manifest of autofeatureselect.         *)
(*                                                                         *)
(* The manifest is a straight-line script: it imports setuptools, then     *)
(* evaluates the keyword arguments of one setup(...) call from top to      *)
(* bottom (Python evaluates call arguments left to right) and finally      *)
(* calls setup().  Two of the arguments are computed from the build        *)
(* environment: long_description = open('README.md').read() and            *)
(* packages = find_packages().  Everything else is a literal.              *)
(*                                                                         *)
(* Strings whose characters matter (requirement strings, the version       *)
(* constraint, the README text) are sequences of one-character strings.    *)
(* In README text the tokens "CR" and "LF" stand for the carriage-return   *)
(* and line-feed characters.                                               *)
(*                                                                         *)
(* Two executions of the manifest, in independent environments, are        *)
(* modelled side by side so that statements comparing two executions can   *)
(* be checked.  What an execution sees of its environment (whether         *)
(* setuptools is importable, whether README.md opens, what it holds, what  *)
(* find_packages() returns, whether setup() succeeds) is chosen when the   *)
(* execution observes it.                                                  *)
(***************************************************************************)
EXTENDS Integers, Sequences, FiniteSets

\* ------------------------------------------------------------------ bounds

\* Longest README.md text considered, in characters.
MaxReadmeLen == 2

\* The characters a README.md is made of: a plain character and the two
\* line-ending characters.
ReadmeChars == {"a", "CR", "LF"}

\* Directories of the working directory that find_packages() may report.
PkgDirs == {"autofeatureselect", "tests"}

\* The two executions compared.
Runs == {"x", "y"}

\* All README.md texts within the bound.
ReadmeTexts == UNION {[1..n -> ReadmeChars] : n \in 0..MaxReadmeLen}

\* ------------------------------------------------------- literals of setup()

name == "autofeatureselect"

version == "0.1.0"

author == "Shreenidhi T H"

author_email == "shreenidhi1903@gmail.com"

description == "A simple feature selection package for ML"

long_description_content_type == "text/markdown"

url == "https://github.com/yourusername/autofeatureselect"

\* Faulty variant: one requirement written with a space in it.
install_requires_spaced ==
    << <<"p","a","n","d","a","s">>,
       <<"n","u","m","p","y">>,
       <<"s","c","i","k","i","t"," ","l","e","a","r","n">>,
       <<"m","a","t","p","l","o","t","l","i","b">>,
       <<"s","h","a","p">> >>

\* Faulty variant: one requirement pinned to a minimum version.
install_requires_pinned ==
    << <<"p","a","n","d","a","s">>,
       <<"n","u","m","p","y",">","=","1",".","2","1">>,
       <<"s","c","i","k","i","t","-","l","e","a","r","n">>,
       <<"m","a","t","p","l","o","t","l","i","b">>,
       <<"s","h","a","p">> >>

install_requires ==
    << <<"p","a","n","d","a","s">>,
       <<"n","u","m","p","y">>,
       <<"s","c","i","k","i","t","-","l","e","a","r","n">>,
       <<"m","a","t","p","l","o","t","l","i","b">>,
       <<"s","h","a","p">> >>

classifiers ==
    << "Programming Language :: Python :: 3",
       "License :: OSI Approved :: MIT License",
       "Operating System :: OS Independent" >>

\* Faulty variant: the constraint also caps the runtime version.
python_requires_capped == <<">","=","3",".","7",",","<","4">>

python_requires == <<">","=","3",".","7">>

\* Faulty variant: the short description is taken from the README as well.
SetupKwargsDescFromReadme(ld, pk) ==
    [ name |-> name,
      version |-> version,
      author |-> author,
      author_email |-> author_email,
      description |-> ld,
      long_description |-> ld,
      long_description_content_type |-> long_description_content_type,
      url |-> url,
      packages |-> pk,
      install_requires |-> install_requires,
      classifiers |-> classifiers,
      python_requires |-> python_requires ]

\* Faulty variant: the project URL is built from the first package found.
SetupKwargsUrlFromPackages(ld, pk) ==
    [ name |-> name,
      version |-> version,
      author |-> author,
      author_email |-> author_email,
      description |-> description,
      long_description |-> ld,
      long_description_content_type |-> long_description_content_type,
      url |-> IF pk = {} THEN url ELSE CHOOSE p \in pk : TRUE,
      packages |-> pk,
      install_requires |-> install_requires,
      classifiers |-> classifiers,
      python_requires |-> python_requires ]

\* The keyword arguments of the setup(...) call, given the values of the two
\* computed arguments.
SetupKwargs(ld, pk) ==
    [ name |-> name,
      version |-> version,
      author |-> author,
      author_email |-> author_email,
      description |-> description,
      long_description |-> ld,
      long_description_content_type |-> long_description_content_type,
      url |-> url,
      packages |-> pk,
      install_requires |-> install_requires,
      classifiers |-> classifiers,
      python_requires |-> python_requires ]

\* ------------------------------------------------------------ text-mode read

\* Faulty variant: the file is opened for writing.
OpenModeWrite == "w"

\* open('README.md') gives no mode: the default, read-only text mode.
OpenMode == "r"

\* What read() returns for a file opened in text mode with the default
\* newline handling: the sequences CR LF and a lone CR both become LF.
RECURSIVE TranslateNewlines(_)
TranslateNewlines(s) ==
    IF s = << >> THEN << >>
    ELSE IF s[1] = "CR"
         THEN IF Len(s) >= 2 /\ s[2] = "LF"
              THEN <<"LF">> \o TranslateNewlines(SubSeq(s, 3, Len(s)))
              ELSE <<"LF">> \o TranslateNewlines(Tail(s))
         ELSE <<s[1]>> \o TranslateNewlines(Tail(s))

\* ------------------------------------------------------------------- state

VARIABLES
    pc,          \* per run: the step about to execute, or "done" / "raised"
    events,      \* per run: the calls made so far, each with its outcome
    raw,         \* per run: the text README.md held when it was read
    ld,          \* per run: the evaluated long_description argument
    pk,          \* per run: the evaluated packages argument
    calls,       \* per run: the keyword records setup() was invoked with
    registered,  \* per run: the metadata setup() registered
    escaped      \* per run: the exception that left the script, or "none"

vars == <<pc, events, raw, ld, pk, calls, registered, escaped>>

Unset == [set |-> FALSE, val |-> << >>]

UnsetPk == [set |-> FALSE, val |-> {}]

Event(op, target, result) == [op |-> op, target |-> target, result |-> result]

Log(r, op, target, result) ==
    events' = [events EXCEPT ![r] = Append(@, Event(op, target, result))]

\* Faulty variant: the README steps are left out of the script.
NextPcSkipReadme(p) ==
    CASE p = "import" -> "find_packages"
      [] p = "open" -> "read"
      [] p = "read" -> "find_packages"
      [] p = "find_packages" -> "setup"
      [] p = "setup" -> "done"
      [] OTHER -> p

\* The order in which the script's calls execute.
NextPc(p) ==
    CASE p = "import" -> "open"
      [] p = "open" -> "read"
      [] p = "read" -> "find_packages"
      [] p = "find_packages" -> "setup"
      [] p = "setup" -> "done"
      [] OTHER -> p

\* Faulty variant: a failing call is ignored and the script goes on.
PropagateSwallow(r, e) ==
    /\ pc' = [pc EXCEPT ![r] = NextPc(@)]
    /\ UNCHANGED <<raw, ld, pk, registered, escaped>>

\* Faulty variant: a failing call is caught and an empty long_description is
\* substituted.
PropagateDefault(r, e) ==
    /\ pc' = [pc EXCEPT ![r] = NextPc(@)]
    /\ ld' = [ld EXCEPT ![r] = [set |-> TRUE, val |-> << >>]]
    /\ UNCHANGED <<raw, pk, registered, escaped>>

\* The script has no try/except: an exception raised by any call ends the
\* execution and leaves the script as it was raised.  (The caller says what
\* happens to calls, which only setup() changes.)
Propagate(r, e) ==
    /\ pc' = [pc EXCEPT ![r] = "raised"]
    /\ escaped' = [escaped EXCEPT ![r] = e]
    /\ UNCHANGED <<raw, ld, pk, registered>>

Init ==
    /\ pc = [r \in Runs |-> "import"]
    /\ events = [r \in Runs |-> << >>]
    /\ raw = [r \in Runs |-> Unset]
    /\ ld = [r \in Runs |-> Unset]
    /\ pk = [r \in Runs |-> UnsetPk]
    /\ calls = [r \in Runs |-> << >>]
    /\ registered = [r \in Runs |-> {}]
    /\ escaped = [r \in Runs |-> "none"]

\* from setuptools import setup, find_packages
Import(r) ==
    /\ pc[r] = "import"
    /\ \E out \in {"ok", "ModuleNotFoundError"} :
         /\ Log(r, "import", "setuptools", out)
         /\ UNCHANGED calls
         /\ IF out = "ok"
            THEN /\ pc' = [pc EXCEPT ![r] = NextPc(@)]
                 /\ UNCHANGED <<raw, ld, pk, registered, escaped>>
            ELSE Propagate(r, out)

\* open('README.md')
OpenReadme(r) ==
    /\ pc[r] = "open"
    /\ \E out \in {"ok", "FileNotFoundError", "PermissionError"} :
         /\ Log(r, "open_" \o OpenMode, "README.md", out)
         /\ UNCHANGED calls
         /\ IF out = "ok"
            THEN /\ pc' = [pc EXCEPT ![r] = NextPc(@)]
                 /\ UNCHANGED <<raw, ld, pk, registered, escaped>>
            ELSE Propagate(r, out)

\* .read(): the whole file, decoded as text
ReadReadme(r) ==
    /\ pc[r] = "read"
    /\ \/ \E text \in ReadmeTexts :
            /\ Log(r, "read", "README.md", "ok")
            /\ raw' = [raw EXCEPT ![r] = [set |-> TRUE, val |-> text]]
            /\ ld' = [ld EXCEPT ![r] =
                        [set |-> TRUE, val |-> TranslateNewlines(text)]]
            /\ pc' = [pc EXCEPT ![r] = NextPc(@)]
            /\ UNCHANGED <<pk, calls, registered, escaped>>
       \/ /\ Log(r, "read", "README.md", "UnicodeDecodeError")
          /\ UNCHANGED calls
          /\ Propagate(r, "UnicodeDecodeError")

\* find_packages()
FindPackages(r) ==
    /\ pc[r] = "find_packages"
    /\ \E found \in SUBSET PkgDirs :
         /\ Log(r, "find_packages", ".", "ok")
         /\ pk' = [pk EXCEPT ![r] = [set |-> TRUE, val |-> found]]
         /\ pc' = [pc EXCEPT ![r] = NextPc(@)]
         /\ UNCHANGED <<raw, ld, calls, registered, escaped>>

\* setup(...): invoked with the evaluated arguments; the build tool behind it
\* either registers the metadata or fails.
CallSetup(r) ==
    /\ pc[r] = "setup"
    /\ LET kw == SetupKwargs(ld[r].val, pk[r].val) IN
       \E out \in {"ok", "SetupError"} :
         /\ Log(r, "setup", "", out)
         /\ calls' = [calls EXCEPT ![r] = Append(@, kw)]
         /\ IF out = "ok"
            THEN /\ registered' = [registered EXCEPT ![r] = @ \cup {kw}]
                 /\ pc' = [pc EXCEPT ![r] = NextPc(@)]
                 /\ UNCHANGED <<raw, ld, pk, escaped>>
            ELSE Propagate(r, out)

Next ==
    \E r \in Runs :
        \/ Import(r)
        \/ OpenReadme(r)
        \/ ReadReadme(r)
        \/ FindPackages(r)
        \/ CallSetup(r)

Spec == Init /\ [][Next]_vars

\* ------------------------------------------------------ helpers of the claims

Lower ==
    {"a","b","c","d","e","f","g","h","i","j","k","l","m",
     "n","o","p","q","r","s","t","u","v","w","x","y","z"}

Upper ==
    {"A","B","C","D","E","F","G","H","I","J","K","L","M",
     "N","O","P","Q","R","S","T","U","V","W","X","Y","Z"}

Digits == {"0","1","2","3","4","5","6","7","8","9"}

\* Characters an identifier is made of; it may not start with a digit.
IdChars == Lower \cup Upper \cup Digits \cup {"_"}

IsIdentifier(s) ==
    /\ Len(s) > 0
    /\ s[1] \notin Digits
    /\ \A i \in 1..Len(s) : s[i] \in IdChars

\* A non-empty string of identifier characters and hyphens.
IsHyphenatedName(s) ==
    /\ Len(s) > 0
    /\ \A i \in 1..Len(s) : s[i] \in IdChars \cup {"-"}

\* Characters that start a version specifier, an extras marker, an
\* environment marker or a direct reference in a requirement string.
SpecifierChars == {"=", "<", ">", "!", "~", "[", "]", ";", "@", ",", "(", ")", " "}

IsBareName(s) == \A i \in 1..Len(s) : s[i] \notin SpecifierChars

\* Non-empty groups of digits separated by single dots.
IsDottedInts(s) ==
    /\ Len(s) > 0
    /\ \A i \in 1..Len(s) : s[i] \in Digits \cup {"."}
    /\ s[1] # "." /\ s[Len(s)] # "."
    /\ \A i \in 1..(Len(s) - 1) : ~(s[i] = "." /\ s[i + 1] = ".")

\* One lower-bound operator followed by a dotted version, and nothing else.
IsLowerBound(s) ==
    \E n \in 1..2 :
        /\ Len(s) > n
        /\ SubSeq(s, 1, n) \in { <<">", "=">>, <<">">> }
        /\ IsDottedInts(SubSeq(s, n + 1, Len(s)))

\* Universal newline translation stated position by position: a CR becomes
\* LF, an LF right after a CR disappears, everything else stays.
UniversalNewlines(s) ==
    LET mark == [i \in 1..Len(s) |->
                   IF s[i] = "CR" THEN "LF"
                   ELSE IF s[i] = "LF" /\ i > 1 /\ s[i - 1] = "CR" THEN "DROP"
                   ELSE s[i]]
    IN SelectSeq(mark, LAMBDA c : c # "DROP")

Called(r) == Len(calls[r]) > 0

Ops(r) == {events[r][i].op : i \in 1..Len(events[r])}

Succeeded(r, op) ==
    \E i \in 1..Len(events[r]) :
        events[r][i].op = op /\ events[r][i].result = "ok"

FailedAt(r, op) ==
    \E i \in 1..Len(events[r]) :
        events[r][i].op = op /\ events[r][i].result # "ok"

Finished(r) == pc[r] \in {"done", "raised"}

\* Every keyword record handed to setup() by any run.
AllCalls == UNION {{calls[r][i] : i \in 1..Len(calls[r])} : r \in Runs}

\* ------------------------------------------------------------------ claims

\* C1 (as stated): the install_requires list passed to setup() is non-empty
\* and every entry of it is a valid identifier.
C1_AllIdentifiers ==
    \A kw \in AllCalls :
        /\ Len(kw.install_requires) > 0
        /\ \A j \in 1..Len(kw.install_requires) :
               IsIdentifier(kw.install_requires[j])

\* C1 (amended): the install_requires list passed to setup() is non-empty
\* and every entry is a non-empty string made only of identifier characters
\* and hyphens, with no whitespace and no other punctuation.
C1_NonEmptyHyphenatedNames ==
    \A kw \in AllCalls :
        /\ Len(kw.install_requires) > 0
        /\ \A j \in 1..Len(kw.install_requires) :
               IsHyphenatedName(kw.install_requires[j])

\* setup() was called with a list holding both an identifier and a
\* hyphenated name.
C1_Witness ==
    \E kw \in AllCalls :
        /\ \E j \in 1..Len(kw.install_requires) :
               IsIdentifier(kw.install_requires[j])
        /\ \E j \in 1..Len(kw.install_requires) :
               /\ ~IsIdentifier(kw.install_requires[j])
               /\ \E i \in 1..Len(kw.install_requires[j]) :
                      kw.install_requires[j][i] = "-"

\* C2: no entry of install_requires carries a version specifier, a
\* comparison operator, an extras marker or an environment marker.
C2_Unversioned ==
    \A kw \in AllCalls :
        \A j \in 1..Len(kw.install_requires) :
            IsBareName(kw.install_requires[j])

\* setup() was called with the five requirements.
C2_Witness ==
    \E kw \in AllCalls : Len(kw.install_requires) = 5

\* C3: setup() receives exactly one python_requires constraint, and it is a
\* single lower-bound operator followed by a dotted sequence of non-negative
\* integers, with no upper bound.
C3_ValidMinimumVersion ==
    \A kw \in AllCalls :
        /\ "python_requires" \in DOMAIN kw
        /\ IsLowerBound(kw.python_requires)

\* setup() was called with a constraint whose version has two components.
C3_Witness ==
    \E kw \in AllCalls :
        \E i \in 1..Len(kw.python_requires) : kw.python_requires[i] = "."

C5_FailurePropagates ==
    \A r \in Runs :
        /\ \A i, j \in 1..Len(events[r]) :
               events[r][i].op = events[r][j].op => i = j
        /\ \A i \in 1..Len(events[r]) :
               events[r][i].result # "ok" =>
                   /\ i = Len(events[r])
                   /\ pc[r] = "raised"
                   /\ escaped[r] = events[r][i].result
                   /\ registered[r] = {}
                   /\ events[r][i].op \in {"open_r", "read"} => ~ld[r].set

\* One execution failed to decode README.md, the other failed inside
\* setup(); both exceptions left the script.
C5_Witness ==
    /\ FailedAt("x", "read") /\ escaped["x"] = "UnicodeDecodeError"
    /\ FailedAt("y", "setup") /\ escaped["y"] = "SetupError"

\* C6: name, version, author, author e-mail, description and the license
\* classifier passed to setup() are the same in any two executions.
C6_StaticFieldsAgree ==
    \A kx \in AllCalls, ky \in AllCalls :
        /\ kx.name = ky.name
        /\ kx.version = ky.version
        /\ kx.author = ky.author
        /\ kx.author_email = ky.author_email
        /\ kx.description = ky.description
        /\ kx.classifiers = ky.classifiers

\* Both executions called setup(), in environments whose README.md and
\* package directories differ.
C6_Witness ==
    /\ Called("x") /\ Called("y")
    /\ raw["x"].val # raw["y"].val
    /\ Len(raw["x"].val) = MaxReadmeLen
    /\ pk["x"].val # pk["y"].val

\* C7: setup() is given no entry points and no scripts, and the script
\* writes no file: its only file access is opening README.md for reading
\* and reading it.
C7_NoCliNoWrites ==
    /\ \A kw \in AllCalls :
           DOMAIN kw \cap {"entry_points", "scripts", "console_scripts"} = {}
    /\ \A r \in Runs : \A i \in 1..Len(events[r]) :
           /\ events[r][i].op \in
                  {"import", "open_r", "read", "find_packages", "setup"}
           /\ events[r][i].op \in {"open_r", "read"} <=>
                  events[r][i].target = "README.md"

\* An execution opened and read README.md and ran to the end.
C7_Witness ==
    \E r \in Runs :
        /\ pc[r] = "done"
        /\ Succeeded(r, "open_r") /\ Succeeded(r, "read")
        /\ registered[r] # {}

\* C8: setup() is invoked at most once, and only after the read of
\* README.md has completed successfully; when the open or the read fails,
\* setup() is never invoked and nothing is registered.
C8_ReadBeforeSingleSetup ==
    \A r \in Runs :
        /\ Len(calls[r]) <= 1
        /\ Cardinality({i \in 1..Len(events[r]) : events[r][i].op = "setup"}) <= 1
        /\ Called(r) <=> "setup" \in Ops(r)
        /\ \A i \in 1..Len(events[r]) :
               events[r][i].op = "setup" =>
                   \E j \in 1..(i - 1) :
                       /\ events[r][j].op = "read"
                       /\ events[r][j].result = "ok"
        /\ (FailedAt(r, "open_r") \/ FailedAt(r, "read")) =>
               /\ ~Called(r)
               /\ "setup" \notin Ops(r)
               /\ registered[r] = {}

\* One execution read README.md and then invoked setup() once; in the
\* other the read failed and setup() was not invoked.
C8_Witness ==
    /\ Succeeded("x", "read") /\ Len(calls["x"]) = 1
    /\ FailedAt("y", "read") /\ pc["y"] = "raised" /\ ~Called("y")

\* C9 (as stated): between any two executions only long_description and
\* packages may differ; long_description is the contents of README.md
\* unmodified and packages is what find_packages() returned.
C9_ReadmePassedUnmodified ==
    /\ \A kx \in AllCalls, ky \in AllCalls :
           /\ DOMAIN kx = DOMAIN ky
           /\ \A k \in DOMAIN kx \ {"long_description", "packages"} :
                  kx[k] = ky[k]
    /\ \A r \in Runs : \A i \in 1..Len(calls[r]) :
           /\ calls[r][i].long_description = raw[r].val
           /\ calls[r][i].packages = pk[r].val

\* C9 (amended): between any two executions only long_description and
\* packages may differ; long_description is the text of README.md as a
\* text-mode read returns it (every CR LF and every lone CR replaced by LF,
\* nothing else changed) and packages is what find_packages() returned.
C9_OnlyReadmeAndPackagesVary ==
    /\ \A kx \in AllCalls, ky \in AllCalls :
           /\ DOMAIN kx = DOMAIN ky
           /\ \A k \in DOMAIN kx \ {"long_description", "packages"} :
                  kx[k] = ky[k]
    /\ \A r \in Runs : \A i \in 1..Len(calls[r]) :
           /\ raw[r].set /\ pk[r].set
           /\ calls[r][i].long_description = UniversalNewlines(raw[r].val)
           /\ calls[r][i].packages = pk[r].val

\* Both executions called setup(); one README.md has a CR LF line ending,
\* the other has none, and both arguments differ between the two calls.
C9_Witness ==
    /\ Called("x") /\ Called("y")
    /\ raw["x"].val = <<"CR", "LF">>
    /\ raw["y"].val = <<"a", "LF">>
    /\ calls["x"][1].long_description # calls["y"][1].long_description
    /\ calls["x"][1].packages # calls["y"][1].packages

=============================================================================
